---- MODULE Spec2Model ----
(***************************************************************************)
(* git-wrapper: the execution core behind the `alias`, `conf`, `last`,     *)
(* `l`, `show` and `files` subcommands.                                     *)
(*                                                                         *)
(*   - src/src/cli/subcommands.rs      Subcommands::run (the dispatch)     *)
(*   - src/src/git/commands/immutable.rs  ImmutableCommands (the callers   *)
(*     of the pipe helpers and of GitCommand::execute_git_command)         *)
(*                                                                         *)
(* The pipe helpers (Commands::pipe_from_command, double_ended_pipe,       *)
(* pipe_to_column, Ripgrep::double_ended_pipe), Git::parse_config_options  *)
(* and GitCommand::execute_git_command are called by these files but       *)
(* defined elsewhere; their signatures are fixed by the call sites         *)
(* (ChildStdout in, ChildStdout or Output out) and their bodies follow     *)
(* spec.md sections 4 and 5.  The child processes and the OS pipes         *)
(* between them are modelled after spec.md section 5.                      *)
(***************************************************************************)
EXTENDS Integers, Sequences, FiniteSets, TLC

VARIABLES
    call,       \* the parsed command line: the Subcommands variant and its fields
    pc,         \* the orchestrator's position in Subcommands::run / ImmutableCommands
    stages,     \* the child processes spawned so far, in spawn order
    cur,        \* index of the stage whose ChildStdout the orchestrator holds (0: none)
    attempts,   \* number of spawn attempts made so far (successful or not)
    out,        \* the Output returned by pipe_to_column
    result,     \* the GitResult returned to the caller
    argv,       \* ArgSpec: the argument vector produced by the function applied
    apc         \* ArgSpec: "call" before the function is applied, "done" after

vars == <<call, pc, stages, cur, attempts, out, result, argv, apc>>

-----------------------------------------------------------------------------
(* Bounds of the model.                                                    *)

\* longest default_args / user_args sequence drawn in ArgSpec
MaxLen == 2
\* largest NUM drawn for the num argument in ArgSpec
MaxNum == 2
\* chunks of output a stage writes before it is finished
MaxOut == 1
\* chunks an OS pipe holds before a write blocks
PipeCap == 1

-----------------------------------------------------------------------------
(* Option<T>: None is the empty tuple, Some(x) the one-element tuple.      *)

None == <<>>
Some(x) == <<x>>
unwrap_or(o, d) == IF o = None THEN d ELSE o[1]

\* the tokens user arguments, default arguments and patterns are drawn from
Tokens == {"-p", "HEAD"}

SeqsUpTo(S, n) == UNION {[1..k -> S] : k \in 0..n}

-----------------------------------------------------------------------------
(* Argument assembly.                                                      *)

\* format!("--max-count={}", n)
FormatMaxCount(n) == "--max-count=" \o ToString(n)

\* spec.md 4.3: assemble(default_args, user_args, trailing_required)
assemble(default_args, user_args, trailing_required) ==
    default_args \o user_args \o
        (IF trailing_required = None THEN <<>> ELSE <<trailing_required[1]>>)

\* ImmutableCommands::compact_summary_log: the GitCommand it builds
compact_summary_log(num, args) ==
    [subcommand |-> "log",
     default_args |-> <<"--compact-summary", FormatMaxCount(unwrap_or(num, 1))>>,
     user_args |-> args]

\* ImmutableCommands::one_line_log
one_line_log(num, args) ==
    [subcommand |-> "log",
     default_args |->
        <<"--pretty='%C(yellow)%h %C(magenta)%as %C(blue)%aL %C(cyan)%s%C(reset)'",
          FormatMaxCount(unwrap_or(num, 25))>>,
     user_args |-> args]

show_DropsUserArgs(num, args) ==
    [subcommand |-> "show",
     default_args |-> <<"--expand-tabs=4", FormatMaxCount(unwrap_or(num, 1))>>,
     user_args |-> <<>>]

\* ImmutableCommands::show
show(num, args) ==
    [subcommand |-> "show",
     default_args |-> <<"--expand-tabs=4", FormatMaxCount(unwrap_or(num, 1))>>,
     user_args |-> args]

\* ImmutableCommands::show_files
show_files(num) ==
    [subcommand |-> "show",
     default_args |-> <<"--pretty=", "--name-only", FormatMaxCount(unwrap_or(num, 1))>>,
     user_args |-> <<>>]

\* GitCommand::execute_git_command: the arguments that follow the subcommand
CommandLine(gc) == assemble(gc.default_args, gc.user_args, None)

\* Git::parse_config_options(options, &mut config_args)
parse_config_options(options, config_args) ==
    config_args
        \o (IF options.show_origin THEN <<"--show-origin">> ELSE <<>>)
        \o (IF options.show_scope THEN <<"--show-scope">> ELSE <<>>)

list_aliases_config_args_PatternFirst(options) ==
    parse_config_options(options, <<"config", "--get-regexp", "^alias\\.">>)

\* list_aliases: config_args as handed to pipe_from_command("git", ..)
list_aliases_config_args(options) ==
    parse_config_options(options, <<"config">>) \o <<"--get-regexp", "^alias\\.">>

\* list_configuration_settings: config_args
list_configuration_settings_config_args(options) ==
    parse_config_options(options, <<"config", "--list">>)

\* Ripgrep::double_ended_pipe: RipgrepOptions as flags, the pattern last
RipgrepArgs(pattern, rg_options) ==
    assemble(rg_options, <<>>, Some(pattern))

\* the GitCommand a passthrough subcommand builds (Subcommands::run)
GitCommandOf(c) ==
    CASE c.op = "last" -> compact_summary_log(c.num, c.args)
      [] c.op = "l" -> one_line_log(c.num, c.args)
      [] c.op = "show" -> show(c.num, c.args)
      [] c.op = "files" -> show_files(c.num)

-----------------------------------------------------------------------------
(* Child processes and the pipes between them.                             *)

\* exit codes a program may report (0: success; 7: the failure of spec.md 8)
ExitCodes == {0, 7}

Launcher == <<"launcher", 0>>     \* the orchestrator's own ChildStdout value
Collector == <<"collector", 0>>   \* wait_with_output reading the stdout
Stdin(j) == <<"stdin", j>>        \* stage j's standard input

\* a freshly spawned child.  stdin: index of the stage it reads from (0:
\* inherited).  piped: its stdout is captured.  holders: who holds the read
\* end of its stdout now; consumed: everyone who ever took it as a consumer.
\* left: output chunks still to write; buf: chunks sitting in its stdout pipe.
NewStage(prog, args, stdin, piped, holder) ==
    [prog |-> prog, args |-> args, stdin |-> stdin, piped |-> piped,
     st |-> "running", status |-> 0,
     left |-> IF piped THEN MaxOut ELSE 0, buf |-> 0,
     holders |-> IF piped THEN {holder} ELSE {},
     consumed |-> IF piped /\ holder # Launcher THEN {holder} ELSE {},
     waits |-> 0]

Spawned == 1..Len(stages)
Running(i) == stages[i].st = "running"

\* stage record s with holder h's copy of its stdout read end closed; once
\* nobody holds the read end, what is left in the pipe is lost
CloseReadEnd(s, h) ==
    [s EXCEPT !.holders = s.holders \ {h},
              !.buf = IF s.holders \ {h} = {} THEN 0 ELSE s.buf]

\* the stages with process i gone: its stdin (the read end of its upstream's
\* stdout) is closed with it
Terminated(i, st, status) ==
    [k \in Spawned |->
        IF k = i THEN [stages[k] EXCEPT !.st = st, !.status = status, !.left = 0]
        ELSE IF k = stages[i].stdin THEN CloseReadEnd(stages[k], Stdin(i))
        ELSE stages[k]]

\* stage i writes one chunk into its stdout pipe (blocks while the pipe is full)
Write(i) ==
    /\ i \in Spawned
    /\ Running(i) /\ stages[i].piped
    /\ stages[i].left > 0
    /\ stages[i].holders # {}
    /\ stages[i].buf < PipeCap
    /\ stages' = [stages EXCEPT ![i].left = @ - 1, ![i].buf = @ + 1]
    /\ UNCHANGED <<call, pc, cur, attempts, out, result, argv, apc>>

\* stage i writes to a pipe whose read end is closed: SIGPIPE ends it
SigPipe(i) ==
    /\ i \in Spawned
    /\ Running(i) /\ stages[i].piped
    /\ stages[i].left > 0
    /\ stages[i].holders = {}
    /\ stages' = Terminated(i, "killed", 0)
    /\ UNCHANGED <<call, pc, cur, attempts, out, result, argv, apc>>

\* stage j reads one chunk from its standard input
Read(j) ==
    /\ j \in Spawned
    /\ Running(j)
    /\ stages[j].stdin # 0
    /\ stages[stages[j].stdin].buf > 0
    /\ stages' = [stages EXCEPT ![stages[j].stdin].buf = @ - 1]
    /\ UNCHANGED <<call, pc, cur, attempts, out, result, argv, apc>>

\* stage i has written all its output and exits with a code of its choosing
Finish(i) ==
    /\ i \in Spawned
    /\ Running(i)
    /\ stages[i].left = 0
    /\ \E c \in ExitCodes : stages' = Terminated(i, "exited", c)
    /\ UNCHANGED <<call, pc, cur, attempts, out, result, argv, apc>>

\* stage i exits before it has written all its output (a reader that stops
\* early, a program that fails half way)
Abort(i) ==
    /\ i \in Spawned
    /\ Running(i)
    /\ stages[i].left > 0
    /\ \E c \in ExitCodes : stages' = Terminated(i, "exited", c)
    /\ UNCHANGED <<call, pc, cur, attempts, out, result, argv, apc>>

\* a chain has at most five stages: git | sed | rg | sed | column
StageIds == 1..5

Process ==
    \E i \in StageIds :
        \/ Write(i)
        \/ SigPipe(i)
        \/ Read(i)
        \/ Finish(i)
        \/ Abort(i)

-----------------------------------------------------------------------------
(* Results.                                                                *)

NoResult == [kind |-> "none", code |-> 0]
Success == [kind |-> "Success", code |-> 0]
Failure(c) == [kind |-> "Failure", code |-> c]
Err(e) == [kind |-> e, code |-> 0]

\* spec.md 4.4: normalize(exit_status)
normalize(exit_status) ==
    IF exit_status = 0 THEN Success ELSE Failure(exit_status)

NoOutput == [done |-> FALSE, status |-> 0, stdout |-> 0]

-----------------------------------------------------------------------------
(* The pipe helpers.  Each takes `ok`: whether the OS creates the process. *)

\* stage record s with its stdout moved from the orchestrator to consumer h
HandOver(s, h) ==
    [s EXCEPT !.holders = (s.holders \ {Launcher}) \cup {h},
              !.consumed = s.consumed \cup {h}]

\* Commands::pipe_from_command(command, args) -> Result<ChildStdout>
pipe_from_command(command, args, ok) ==
    /\ attempts' = attempts + 1
    /\ IF ok
       THEN /\ stages' = Append(stages, NewStage(command, args, 0, TRUE, Launcher))
            /\ cur' = Len(stages) + 1
       ELSE /\ stages' = stages
            /\ cur' = 0

\* Commands::double_ended_pipe(command, input, args) -> Result<ChildStdout>
\* (Ripgrep::double_ended_pipe is the same with command "rg"): the input
\* handle becomes the child's stdin; the child itself is not kept
double_ended_pipe(command, input, args, ok) ==
    /\ attempts' = attempts + 1
    /\ IF ok
       THEN /\ stages' = Append(
                    [stages EXCEPT ![input] = HandOver(@, Stdin(Len(stages) + 1))],
                    NewStage(command, args, input, TRUE, Launcher))
            /\ cur' = Len(stages) + 1
       ELSE /\ stages' = [stages EXCEPT ![input] = CloseReadEnd(@, Launcher)]
            /\ cur' = 0

\* Commands::pipe_to_column(input, separator): spawn `column`, keep the child
pipe_to_column_spawn(input, separator, ok) ==
    /\ attempts' = attempts + 1
    /\ cur' = 0
    /\ IF ok
       THEN stages' = Append(
                [stages EXCEPT ![input] = HandOver(@, Stdin(Len(stages) + 1))],
                NewStage("column", <<"-t", "-s", separator>>, input, TRUE, Collector))
       ELSE stages' = [stages EXCEPT ![input] = CloseReadEnd(@, Launcher)]

Try_IgnoresErr(ok, next, err) ==
    /\ pc' = next
    /\ result' = result

\* `?`: on Err return it to the caller, on Ok go on with the next statement
Try(ok, next, err) ==
    /\ pc' = IF ok THEN next ELSE "done"
    /\ result' = IF ok THEN result ELSE Err(err)

\* the statement that follows pipe_to_column in the running operation
AfterColumn == IF call.op = "alias" THEN "alias_L65" ELSE "conf_L102"

\* pipe_to_column, collecting: read one chunk of column's output
column_read ==
    /\ pc = "column_read"
    /\ stages[Len(stages)].buf > 0
    /\ stages' = [stages EXCEPT ![Len(stages)].buf = @ - 1]
    /\ out' = [out EXCEPT !.stdout = @ + 1]
    /\ UNCHANGED <<call, pc, cur, attempts, result, argv, apc>>

\* pipe_to_column, collecting: end of output reached, wait for column
column_wait ==
    /\ pc = "column_read"
    /\ ~Running(Len(stages))
    /\ stages[Len(stages)].buf = 0
    /\ stages' = [stages EXCEPT
            ![Len(stages)] = [CloseReadEnd(@, Collector) EXCEPT !.waits = @ + 1]]
    /\ out' = [out EXCEPT !.done = TRUE, !.status = stages[Len(stages)].status]
    /\ pc' = AfterColumn
    /\ UNCHANGED <<call, cur, attempts, result, argv, apc>>

\* pipe_to_column, collecting: reading column's output fails
column_fail ==
    /\ pc = "column_read"
    /\ stages' = [stages EXCEPT ![Len(stages)] = CloseReadEnd(@, Collector)]
    /\ Try(FALSE, AfterColumn, "CollectionError")
    /\ UNCHANGED <<call, cur, attempts, out, argv, apc>>

\* GitCommand::execute_git_command: spawn git with inherited stdio
exec_spawn ==
    /\ pc = "exec"
    /\ attempts' = attempts + 1
    /\ \E ok \in BOOLEAN :
        /\ stages' = IF ok
                     THEN Append(stages,
                            NewStage("git",
                                <<GitCommandOf(call).subcommand>>
                                    \o CommandLine(GitCommandOf(call)),
                                0, FALSE, Launcher))
                     ELSE stages
        /\ Try(ok, "exec_wait", "SpawnError")
    /\ UNCHANGED <<call, cur, out, argv, apc>>

\* GitCommand::execute_git_command: wait for git and normalize its status
exec_wait ==
    /\ pc = "exec_wait"
    /\ ~Running(Len(stages))
    /\ stages' = [stages EXCEPT ![Len(stages)].waits = @ + 1]
    /\ result' = normalize(stages[Len(stages)].status)
    /\ pc' = "done"
    /\ UNCHANGED <<call, cur, attempts, out, argv, apc>>

-----------------------------------------------------------------------------
(* Subcommands::run and the ImmutableCommands it dispatches to.            *)

ChainOps == {"alias", "conf"}
PassthroughOps == {"last", "l", "show", "files"}

\* Subcommands::run: match self
run ==
    /\ pc = "run"
    /\ pc' = CASE call.op = "alias" -> "alias_L46"
               [] call.op = "conf" -> "conf_L81"
               [] OTHER -> "exec"
    /\ UNCHANGED <<call, stages, cur, attempts, out, result, argv, apc>>

\* list_aliases: let aliases = Commands::pipe_from_command("git", &config_args)?
alias_L46 ==
    /\ pc = "alias_L46"
    /\ \E ok \in BOOLEAN :
        /\ pipe_from_command("git", list_aliases_config_args(call.options), ok)
        /\ Try(ok, "alias_L49", "SpawnError")
    /\ UNCHANGED <<call, out, argv, apc>>

\* list_aliases: let aliases = Commands::double_ended_pipe("sed", aliases, ..)?
alias_L49 ==
    /\ pc = "alias_L49"
    /\ \E ok \in BOOLEAN :
        /\ double_ended_pipe("sed", cur, <<"s/^alias\\.//">>, ok)
        /\ Try(ok, "alias_L51", "SpawnError")
    /\ UNCHANGED <<call, out, argv, apc>>

alias_L51_Some_AlsoForwards ==
    /\ pc = "alias_L51"
    /\ call.filter # None
    /\ attempts' = attempts + 1
    /\ stages' = Append(
            [stages EXCEPT ![cur] = HandOver(@, Stdin(Len(stages) + 1))],
            NewStage("rg", RipgrepArgs(call.filter[1], <<"--fixed-strings">>),
                     cur, TRUE, Launcher))
    /\ pc' = "alias_L60"
    /\ UNCHANGED <<call, cur, out, result, argv, apc>>

\* list_aliases: match filter { Some(pattern) => Ripgrep::double_ended_pipe(..)? }
alias_L51_Some ==
    /\ pc = "alias_L51"
    /\ call.filter # None
    /\ \E ok \in BOOLEAN :
        /\ double_ended_pipe("rg", cur,
                RipgrepArgs(call.filter[1], <<"--fixed-strings">>), ok)
        /\ Try(ok, "alias_L60", "SpawnError")
    /\ UNCHANGED <<call, out, argv, apc>>

\* list_aliases: match filter { None => aliases }
alias_L51_None ==
    /\ pc = "alias_L51"
    /\ call.filter = None
    /\ pc' = "alias_L60"
    /\ UNCHANGED <<call, stages, cur, attempts, out, result, argv, apc>>

alias_L60_StaleHandle ==
    /\ pc = "alias_L60"
    /\ \E ok \in BOOLEAN :
        /\ double_ended_pipe("sed", 2, <<"s/ /\\;/">>, ok)
        /\ Try(ok, "alias_L63", "SpawnError")
    /\ UNCHANGED <<call, out, argv, apc>>

\* list_aliases: Commands::double_ended_pipe("sed", filtered_aliases, ..)?
alias_L60 ==
    /\ pc = "alias_L60"
    /\ \E ok \in BOOLEAN :
        /\ double_ended_pipe("sed", cur, <<"s/ /\\;/">>, ok)
        /\ Try(ok, "alias_L63", "SpawnError")
    /\ UNCHANGED <<call, out, argv, apc>>

\* list_aliases: Commands::pipe_to_column(delimited_aliases, ';')?
alias_L63 ==
    /\ pc = "alias_L63"
    /\ \E ok \in BOOLEAN :
        /\ pipe_to_column_spawn(cur, ";", ok)
        /\ Try(ok, "column_read", "SpawnError")
    /\ UNCHANGED <<call, out, argv, apc>>

alias_L65_UpstreamStatus ==
    /\ pc = "alias_L65"
    /\ \E ok \in BOOLEAN :
        /\ pc' = "done"
        /\ result' =
            IF ~ok THEN Err("WriteError")
            ELSE IF \E i \in Spawned : stages[i].st = "exited" /\ stages[i].status # 0
                 THEN Failure(stages[CHOOSE i \in Spawned :
                        stages[i].st = "exited" /\ stages[i].status # 0].status)
                 ELSE Success
    /\ UNCHANGED <<call, stages, cur, attempts, out, argv, apc>>

alias_L65_KilledIsError ==
    /\ pc = "alias_L65"
    /\ \E ok \in BOOLEAN :
        /\ pc' = "done"
        /\ result' =
            IF ~ok THEN Err("WriteError")
            ELSE IF \E i \in Spawned : stages[i].st = "killed"
                 THEN Err("PipeError")
                 ELSE Success
    /\ UNCHANGED <<call, stages, cur, attempts, out, argv, apc>>

\* list_aliases: io::stdout().write_all(&aliases_table.stdout)?; Ok(Success)
alias_L65 ==
    /\ pc = "alias_L65"
    /\ \E ok \in BOOLEAN :
        /\ pc' = "done"
        /\ result' = IF ok THEN Success ELSE Err("WriteError")
    /\ UNCHANGED <<call, stages, cur, attempts, out, argv, apc>>

\* list_configuration_settings: Commands::pipe_from_command("git", &config_args)?
conf_L81 ==
    /\ pc = "conf_L81"
    /\ \E ok \in BOOLEAN :
        /\ pipe_from_command("git",
                list_configuration_settings_config_args(call.options), ok)
        /\ Try(ok, "conf_L85", "SpawnError")
    /\ UNCHANGED <<call, out, argv, apc>>

\* list_configuration_settings: Ripgrep::double_ended_pipe(configs, r"^alias\.", InvertMatch)?
conf_L85 ==
    /\ pc = "conf_L85"
    /\ \E ok \in BOOLEAN :
        /\ double_ended_pipe("rg", cur,
                RipgrepArgs("^alias\\.", <<"--invert-match">>), ok)
        /\ Try(ok, "conf_L88", "SpawnError")
    /\ UNCHANGED <<call, out, argv, apc>>

\* list_configuration_settings: match filter { Some(pattern) => Ripgrep::double_ended_pipe(..)? }
conf_L88_Some ==
    /\ pc = "conf_L88"
    /\ call.filter # None
    /\ \E ok \in BOOLEAN :
        /\ double_ended_pipe("rg", cur,
                RipgrepArgs(call.filter[1], <<"--fixed-strings">>), ok)
        /\ Try(ok, "conf_L100", "SpawnError")
    /\ UNCHANGED <<call, out, argv, apc>>

\* list_configuration_settings: match filter { None => configs_no_aliases }
conf_L88_None ==
    /\ pc = "conf_L88"
    /\ call.filter = None
    /\ pc' = "conf_L100"
    /\ UNCHANGED <<call, stages, cur, attempts, out, result, argv, apc>>

\* list_configuration_settings: Commands::pipe_to_column(filtered_configs, '=')?
conf_L100 ==
    /\ pc = "conf_L100"
    /\ \E ok \in BOOLEAN :
        /\ pipe_to_column_spawn(cur, "=", ok)
        /\ Try(ok, "column_read", "SpawnError")
    /\ UNCHANGED <<call, out, argv, apc>>

\* list_configuration_settings: io::stdout().write_all(&config_table.stdout)?; Ok(Success)
conf_L102 ==
    /\ pc = "conf_L102"
    /\ \E ok \in BOOLEAN :
        /\ pc' = "done"
        /\ result' = IF ok THEN Success ELSE Err("WriteError")
    /\ UNCHANGED <<call, stages, cur, attempts, out, argv, apc>>

\* the statements that build a chain, before pipe_to_column collects
Building ==
    pc \in {"alias_L46", "alias_L49", "alias_L51", "alias_L60", "alias_L63",
            "conf_L81", "conf_L85", "conf_L88", "conf_L100"}

Orchestrate ==
    \/ run
    \/ alias_L46 \/ alias_L49 \/ alias_L51_Some \/ alias_L51_None
    \/ alias_L60 \/ alias_L63 \/ alias_L65
    \/ conf_L81 \/ conf_L85 \/ conf_L88_Some \/ conf_L88_None
    \/ conf_L100 \/ conf_L102
    \/ column_read \/ column_wait \/ column_fail
    \/ exec_spawn \/ exec_wait

-----------------------------------------------------------------------------
(* Spec: one invocation of the tool, its children running concurrently.    *)

NoOptions == [show_origin |-> FALSE, show_scope |-> FALSE]

Call(op, num, args, filter, options) ==
    [op |-> op, num |-> num, args |-> args, filter |-> filter,
     options |-> options, default_args |-> <<>>, trailing |-> None]

\* the command lines Spec runs
SpecCalls ==
    {Call(op, None, <<>>, filter, NoOptions) :
        op \in ChainOps, filter \in {None, Some("HEAD")}}
    \cup {Call(op, None, <<>>, None, NoOptions) : op \in PassthroughOps}

Init ==
    /\ call \in SpecCalls
    /\ pc = "run"
    /\ stages = <<>>
    /\ cur = 0
    /\ attempts = 0
    /\ out = NoOutput
    /\ result = NoResult
    /\ argv = <<>>
    /\ apc = "idle"

Next == Orchestrate \/ Process

Spec == Init /\ [][Next]_vars

\* a step the OS or the orchestrator takes without anybody's leave: a
\* runnable child reads, writes, is signalled or finishes, the orchestrator
\* goes on.  (Abort is a child's own choice and is not among them.)
FairStep ==
    \/ Orchestrate
    \/ \E i \in StageIds : Write(i) \/ SigPipe(i) \/ Read(i) \/ Finish(i)

\* the OS schedules every runnable child and the orchestrator runs on
\* (spec.md 5).  Every step uses something up, so no behaviour takes steps
\* forever, and weak fairness of FairStep is weak fairness of each step.
FairSpec == Spec /\ WF_vars(FairStep)

-----------------------------------------------------------------------------
(* ArgSpec: the argument-building functions applied to drawn inputs.       *)

Nums == {None} \cup {Some(n) : n \in 0..MaxNum}
ArgSeqs == SeqsUpTo(Tokens, MaxLen)
ConfigOpts == [show_origin : BOOLEAN, show_scope : BOOLEAN]

ArgCalls ==
    {Call(op, num, args, None, NoOptions) :
        op \in {"last", "l", "show"}, num \in Nums, args \in ArgSeqs}
    \cup {Call("files", num, <<>>, None, NoOptions) : num \in Nums}
    \cup {Call(op, None, <<>>, None, options) : op \in ChainOps, options \in ConfigOpts}
    \cup {[Call("assemble", None, args, None, NoOptions)
                EXCEPT !.default_args = d, !.trailing = t] :
            d \in ArgSeqs, args \in ArgSeqs,
            t \in {None} \cup {Some(x) : x \in Tokens}}

ArgInit ==
    /\ call \in ArgCalls
    /\ apc = "call"
    /\ argv = <<>>
    /\ pc = "args"
    /\ stages = <<>>
    /\ cur = 0
    /\ attempts = 0
    /\ out = NoOutput
    /\ result = NoResult

Applied(v) ==
    /\ apc = "call"
    /\ apc' = "done"
    /\ argv' = v
    /\ UNCHANGED <<call, pc, stages, cur, attempts, out, result>>

\* Subcommands::Last => ImmutableCommands::compact_summary_log(*num, args)
apply_compact_summary_log ==
    /\ call.op = "last"
    /\ Applied(CommandLine(compact_summary_log(call.num, call.args)))

\* Subcommands::L => ImmutableCommands::one_line_log(*num, args)
apply_one_line_log ==
    /\ call.op = "l"
    /\ Applied(CommandLine(one_line_log(call.num, call.args)))

\* Subcommands::Show => ImmutableCommands::show(*num, args)
apply_show ==
    /\ call.op = "show"
    /\ Applied(CommandLine(show(call.num, call.args)))

\* Subcommands::Files => ImmutableCommands::show_files(*num)
apply_show_files ==
    /\ call.op = "files"
    /\ Applied(CommandLine(show_files(call.num)))

\* Subcommands::Alias => list_aliases: the arguments of its git stage
apply_list_aliases ==
    /\ call.op = "alias"
    /\ Applied(list_aliases_config_args(call.options))

\* Subcommands::Conf => list_configuration_settings: the arguments of its git stage
apply_list_configuration_settings ==
    /\ call.op = "conf"
    /\ Applied(list_configuration_settings_config_args(call.options))

\* the Command Assembler on its own, with and without trailing_required
apply_assemble ==
    /\ call.op = "assemble"
    /\ Applied(assemble(call.default_args, call.args, call.trailing))

ArgNext ==
    \/ apply_compact_summary_log
    \/ apply_one_line_log
    \/ apply_show
    \/ apply_show_files
    \/ apply_list_aliases
    \/ apply_list_configuration_settings
    \/ apply_assemble

ArgSpec == ArgInit /\ [][ArgNext]_vars

-----------------------------------------------------------------------------
(* Properties.                                                             *)

LastStage == stages[Len(stages)]

\* the terminal process of the operation has been spawned: column for a
\* chain, git for a passthrough command
TerminalSpawned ==
    /\ Len(stages) > 0
    /\ IF call.op \in ChainOps THEN LastStage.prog = "column" ELSE LastStage.prog = "git"

\* C1: when list_aliases / list_configuration_settings returns, on every exit
\* path, every process it spawned has been waited on exactly once.
C1_EverySpawnedStageWaitedOnce ==
    (pc = "done" /\ call.op \in ChainOps) =>
        \A i \in Spawned : stages[i].waits = 1

\* C2: the caller sees Success only if the terminal process exited with status
\* 0, and a terminal process that exits with a non-zero code c makes the
\* result a failure carrying exactly c.
C2_ResultReflectsTerminalStatus ==
    pc = "done" =>
        /\ result = Success =>
            TerminalSpawned /\ LastStage.st = "exited" /\ LastStage.status = 0
        /\ (/\ TerminalSpawned
            /\ LastStage.waits > 0
            /\ LastStage.st = "exited"
            /\ LastStage.status # 0
            /\ result.kind # "WriteError")
            => result = Failure(LastStage.status)

\* the default_args an ArgSpec call hands to the assembler
DefaultArgsOf(c) ==
    IF c.op = "assemble" THEN c.default_args ELSE GitCommandOf(c).default_args

\* C3: without trailing_required the assembled vector is default_args followed
\* by user_args: its length is the sum of theirs, its prefix is default_args
\* and its suffix is user_args, element for element.
C3_DefaultsThenUserArgs ==
    (/\ apc = "done"
     /\ call.op \in PassthroughOps \cup {"assemble"}
     /\ call.trailing = None) =>
        LET d == DefaultArgsOf(call)
            u == call.args
        IN  /\ Len(argv) = Len(d) + Len(u)
            /\ \A k \in 1..Len(d) : argv[k] = d[k]
            /\ \A k \in 1..Len(u) : argv[Len(d) + k] = u[k]

C3_Witness ==
    /\ apc = "done"
    /\ call.op = "show"
    /\ call.args = <<"-p", "HEAD">>
    /\ argv = <<"--expand-tabs=4", "--max-count=1", "-p", "HEAD">>

Occurs(x, seq) == \E k \in 1..Len(seq) : seq[k] = x

C5_SpawnFailureIsFatal ==
    /\ [](/\ attempts - Len(stages) \in {0, 1}
          /\ (attempts = Len(stages) + 1) <=> (result.kind = "SpawnError")
          /\ result.kind = "SpawnError" => pc = "done")
    /\ [][attempts > Len(stages) =>
            (attempts' = attempts /\ Len(stages') = Len(stages))]_vars

C5_Witness ==
    /\ call.op = "alias"
    /\ pc = "done"
    /\ result = Err("SpawnError")
    /\ attempts = 3
    /\ Len(stages) = 2

\* C6: `last` without a num lists 10 commits (git log gets --max-count=10), and
\* with num = n it gets --max-count=n.
C6_LastDefaultsToTen ==
    (apc = "done" /\ call.op = "last") =>
        /\ call.num = None => Occurs("--max-count=10", argv)
        /\ \A n \in 0..MaxNum :
            call.num = Some(n) => Occurs(FormatMaxCount(n), argv)

\* some stage before the terminal one has exited with a non-zero status
UpstreamFailed ==
    \E i \in 1..(Len(stages) - 1) :
        stages[i].st = "exited" /\ stages[i].status # 0

\* C7: when an upstream stage exits non-zero and the terminal stage's output
\* is collected, the chain's exit_status is the terminal stage's status and
\* the upstream status raises no error.
C7_UpstreamFailureNotAnError ==
    (out.done /\ UpstreamFailed) =>
        /\ out.status = LastStage.status
        /\ result.kind \notin {"SpawnError", "CollectionError", "PipeError", "Failure"}
                \/ (result.kind = "Failure" /\ result.code = LastStage.status
                        /\ LastStage.status # 0)
        /\ (pc = "done" /\ result.kind # "WriteError" /\ LastStage.status = 0)
                => result = Success

C7_Witness ==
    /\ pc = "done"
    /\ out.done
    /\ out.stdout > 0
    /\ stages[1].st = "exited"
    /\ stages[1].status = 7
    /\ LastStage.status = 0
    /\ result = Success

\* stage i is still writing and the stage that reads its output has gone
ReaderGone(i) ==
    /\ i \in Spawned
    /\ Running(i)
    /\ stages[i].left > 0
    /\ \E j \in Spawned : stages[j].stdin = i /\ ~Running(j)

\* C8: a producer whose downstream stage has exited before it finished writing
\* still terminates, and the closure raises no error: the result is decided by
\* the terminal stage alone.
C8_BrokenPipeTolerated ==
    /\ \A i \in StageIds : ReaderGone(i) ~> ~(i \in Spawned /\ Running(i))
    /\ []((/\ pc = "done"
           /\ out.done
           /\ result.kind # "WriteError"
           /\ \E i \in Spawned : stages[i].st = "killed")
            => /\ result.kind \notin {"PipeError", "CollectionError", "SpawnError"}
               /\ LastStage.status = 0 => result = Success)

C8_Witness ==
    /\ pc = "done"
    /\ result = Success
    /\ \E i \in Spawned :
        /\ stages[i].st = "killed"
        /\ \E j \in Spawned : stages[j].stdin = i /\ stages[j].st = "exited"

\* C9: stages are spawned left to right, each reading from the stage spawned
\* just before it and only after every earlier launch succeeded, and nothing
\* is waited on while the chain is being built.
C9_LeftToRightNoEarlyWait ==
    /\ \A k \in Spawned : stages[k].stdin = k - 1
    /\ Building =>
        /\ attempts = Len(stages)
        /\ \A k \in Spawned : stages[k].waits = 0

C9_Witness ==
    /\ pc = "alias_L63"
    /\ Len(stages) = 4
    /\ Running(1)
    /\ Running(2)

PipedStages == {i \in Spawned : stages[i].piped}

\* C10 as stated: over the chain's life every spawned stage's stdout has at
\* most one owner and is consumed by exactly one consumer.
C10_ExactlyOneConsumer ==
    pc = "done" =>
        \A i \in PipedStages :
            /\ Cardinality(stages[i].holders) <= 1
            /\ Cardinality(stages[i].consumed) = 1

\* C10 amended: at every point a stage's stdout has at most one owner and at
\* most one consumer, which is the next stage's stdin or the collector; it has
\* exactly one as soon as the next stage is spawned, and so on every exit path
\* other than a failed launch, with or without the filter stage.
C10_AtMostOneConsumer ==
    \A i \in PipedStages :
        /\ Cardinality(stages[i].holders) <= 1
        /\ Cardinality(stages[i].consumed) <= 1
        /\ stages[i].consumed \subseteq {Stdin(i + 1), Collector}
        /\ (i < Len(stages) \/ stages[i].prog = "column")
                => Cardinality(stages[i].consumed) = 1
        /\ (pc = "done" /\ result.kind # "SpawnError")
                => Cardinality(stages[i].consumed) = 1

C10_Witness ==
    /\ pc = "done"
    /\ call.op = "alias"
    /\ call.filter # None
    /\ Len(stages) = 5
    /\ stages[2].consumed = {Stdin(3)}
    /\ stages[3].prog = "rg"
    /\ stages[3].consumed = {Stdin(4)}
    /\ stages[5].consumed = {Collector}

====
